---- MODULE Spec2Model ----
(***************************************************************************)
(* Expense tracker: the transactions table and its duplicate detection,    *)
(* the upload page's duplicate handling, the category ledger, the category *)
(* hierarchy and CSV format detection.                                     *)
(*                                                                         *)
(* A Transaction (app/models.py) is a record                               *)
(*   [transaction_date, post_date, description, category, amount]          *)
(* with dates as day numbers, the description as a sequence of characters  *)
(* and the amount as a Decimal, counted in units finer than a float keeps. *)
(* A row of the transactions table holds the same fields as SQLite stores  *)
(* them: the dates as ISO text, the amount as a REAL, plus the row id.     *)
(***************************************************************************)
EXTENDS Integers, Sequences, FiniteSets, TLC

VARIABLES
    store,      \* the transactions table: rows in insertion order
    nextId,     \* the next AUTOINCREMENT id of the transactions table
    batch,      \* the Transactions parsed so far from the file at hand
    hierarchy,  \* the category_hierarchy table: category_name -> [parent, level]
    walk,       \* get_category_path in progress: its locals and position
    call        \* the last operation: its name, arguments and return value

vars == <<store, nextId, batch, hierarchy, walk, call>>

None == "None"

(***************************************************************************)
(* Bounds of the model.                                                    *)
(***************************************************************************)
MaxRows == 3

MaxLevel == 3

MaxPath == 4

MaxFields == 3

MaxLines == 2

MaxFileRows == 3

Days == {1, 2}


Descriptions == {<<"a">>, <<"A">>, <<"b">>}

Amounts == {-3, -2, 2}

RECURSIVE SeqsUpTo(_, _)
SeqsUpTo(S, n) ==
    IF n = 0 THEN {<<>>}
    ELSE LET shorter == SeqsUpTo(S, n - 1)
         IN  shorter \cup {Append(s, x) : s \in {q \in shorter : Len(q) = n - 1}, x \in S}

Range(s) == {s[i] : i \in DOMAIN s}

(***************************************************************************)
(* Conversions made on the way into the table.                             *)
(***************************************************************************)
\* datetime.isoformat(): the day number written as its two decimal digits.
isoformat(d) == <<d \div 10, d % 10>>

\* float(Decimal): the nearest value a float keeps. Several Decimals share one
\* float, and a Decimal smaller than the float grain becomes 0.0.
float(a) == IF a < 0 THEN -((-a) \div 2) ELSE a \div 2

\* SQLite's LOWER(): ASCII letters to lower case, character by character.
LowerChar(c) == IF c = "A" THEN "a" ELSE IF c = "B" THEN "b" ELSE c

LOWER(s) == [i \in DOMAIN s |-> LowerChar(s[i])]

\* Text comparison of two ISO dates (SQLite compares TEXT left to right).
IsoLeq(x, y) == x[1] < y[1] \/ (x[1] = y[1] /\ x[2] <= y[2])

(***************************************************************************)
(* The transactions table.                                                 *)
(***************************************************************************)
\* Mutant of InsertValues: the amount is bound as the Decimal, not as its float.
InsertValuesDecimal(t, id) ==
    [id               |-> id,
     transaction_date |-> isoformat(t.transaction_date),
     post_date        |-> isoformat(t.post_date),
     description      |-> t.description,
     category         |-> t.category,
     amount           |-> t.amount]

\* The VALUES tuple of the INSERT statement, with the id SQLite assigns.
InsertValues(t, id) ==
    [id               |-> id,
     transaction_date |-> isoformat(t.transaction_date),
     post_date        |-> isoformat(t.post_date),
     description      |-> t.description,
     category         |-> t.category,
     amount           |-> float(t.amount)]

\* The table after the first k rows of a batch have been INSERTed.
Inserted(s, first, transactions, k) ==
    s \o [i \in 1..k |-> InsertValues(transactions[i], first + i - 1)]

\* Mutant of ConnExitOnError: no rollback, the rows inserted so far stay.
ConnExitKeepsPartial(before, partial) == partial

\* Leaving "with sqlite3.connect(...) as conn" on an exception rolls the open
\* transaction back: the table is as it was before the batch.
ConnExitOnError(before, partial) == before

\* transaction_exists: the exact-match query, then the fuzzy query.
ExactCount(s, t) ==
    Cardinality({i \in DOMAIN s :
        /\ s[i].transaction_date = isoformat(t.transaction_date)
        /\ s[i].post_date = isoformat(t.post_date)
        /\ s[i].description = t.description
        /\ s[i].amount = float(t.amount)})

FuzzyCount(s, t) ==
    Cardinality({i \in DOMAIN s :
        /\ s[i].transaction_date = isoformat(t.transaction_date)
        /\ s[i].amount = float(t.amount)
        /\ (s[i].description = t.description
            \/ LOWER(s[i].description) = LOWER(t.description))})

\* Mutant of transaction_exists: the fuzzy query is left out.
transaction_exists_exact_only(s, t) == ExactCount(s, t) > 0

transaction_exists(s, t) ==
    IF ExactCount(s, t) > 0 THEN TRUE ELSE FuzzyCount(s, t) > 0

\* find_potential_duplicates: same amount, description equal ignoring case, and
\* transaction_date BETWEEN the candidate's date -/+ tolerance_days.
find_potential_duplicates(s, t, tolerance_days) ==
    LET start_date == isoformat(t.transaction_date - tolerance_days)
        end_date   == isoformat(t.transaction_date + tolerance_days)
        Hit(r) == /\ IsoLeq(start_date, r.transaction_date)
                  /\ IsoLeq(r.transaction_date, end_date)
                  /\ r.amount = float(t.amount)
                  /\ (r.description = t.description
                      \/ LOWER(r.description) = LOWER(t.description))
    IN  SelectSeq(s, Hit)

\* insert_transactions_batch on table s with next id n: one INSERT per row inside
\* one connection context, then commit. failAt = 0: no statement fails;
\* failAt = k: the k-th INSERT raises, the context rolls back and the method
\* returns []. The result is the table, the next id and the returned ids.
InsertBatch(s, n, transactions, failAt) ==
    IF transactions = <<>>
    THEN [store |-> s, nextId |-> n, ret |-> <<>>]
    ELSE IF failAt = 0
    THEN [store  |-> Inserted(s, n, transactions, Len(transactions)),
          nextId |-> n + Len(transactions),
          ret    |-> [i \in 1..Len(transactions) |-> n + i - 1]]
    ELSE LET after == ConnExitOnError(s, Inserted(s, n, transactions, failAt - 1))
         IN  [store |-> after, nextId |-> n + (Len(after) - Len(s)), ret |-> <<>>]

\* The parser appends one more Transaction to its result list.
ParseRow(t) ==
    /\ Len(store) + Len(batch) < MaxRows
    /\ batch' = Append(batch, t)
    /\ call' = [op |-> "parse"]
    /\ UNCHANGED <<store, nextId, hierarchy, walk>>

\* A call of insert_transactions_batch on the parsed rows.
insert_transactions_batch(failAt) ==
    /\ failAt <= Len(batch)
    /\ LET r == InsertBatch(store, nextId, batch, failAt)
       IN  /\ store' = r.store
           /\ nextId' = r.nextId
           /\ call' = [op |-> "insert_transactions_batch",
                       transactions |-> batch, ret |-> r.ret]
    /\ batch' = <<>>
    /\ UNCHANGED <<hierarchy, walk>>

\* A call of transaction_exists on a parsed row: a read, the table is untouched.
TransactionExists(i) ==
    /\ i \in DOMAIN batch
    /\ call' = [op |-> "transaction_exists", transaction |-> batch[i],
                ret |-> transaction_exists(store, batch[i])]
    /\ UNCHANGED <<store, nextId, batch, hierarchy, walk>>

(***************************************************************************)
(* The category ledger.                                                    *)
(***************************************************************************)
Categories == {"A", "B", "G"}

\* Mutant of UpdateCategoryIn: the UPDATE has lost its WHERE clause.
UpdateCategoryEveryRow(s, categories, target) ==
    [i \in DOMAIN s |-> [s[i] EXCEPT !.category = target]]

\* UPDATE transactions SET category = target WHERE category IN (categories).
UpdateCategoryIn(s, categories, target) ==
    [i \in DOMAIN s |->
        IF s[i].category \in categories THEN [s[i] EXCEPT !.category = target] ELSE s[i]]

\* cursor.rowcount of that UPDATE: the rows the WHERE clause selects.
RowCountIn(s, categories) ==
    Cardinality({i \in DOMAIN s : s[i].category \in categories})

\* merge_categories: the UPDATE is issued whatever the arguments are.
merge_categories(categories_to_merge, target_category) ==
    /\ store' = UpdateCategoryIn(store, categories_to_merge, target_category)
    /\ call' = [op |-> "merge_categories",
                categories_to_merge |-> categories_to_merge,
                target_category |-> target_category,
                ret |-> RowCountIn(store, categories_to_merge)]
    /\ UNCHANGED <<nextId, batch, hierarchy, walk>>

\* The keys of get_category_stats(): the categories that have rows.
StatCategories(s) == {s[i].category : i \in DOMAIN s}

\* _show_merge_categories_tab: the multiselect offers the categories that have
\* rows, the target is one of them or a typed name; a target among the selected
\* categories shows an error, otherwise the button calls merge_categories.
_show_merge_categories_tab(categories_to_merge, target_category, clicked) ==
    /\ categories_to_merge \subseteq StatCategories(store)
    /\ IF categories_to_merge # {} /\ target_category \notin categories_to_merge /\ clicked
       THEN /\ store' = UpdateCategoryIn(store, categories_to_merge, target_category)
            /\ call' = [op |-> "_show_merge_categories_tab",
                        categories_to_merge |-> categories_to_merge,
                        target_category |-> target_category,
                        merged |-> TRUE,
                        ret |-> RowCountIn(store, categories_to_merge)]
       ELSE /\ store' = store
            /\ call' = [op |-> "_show_merge_categories_tab",
                        categories_to_merge |-> categories_to_merge,
                        target_category |-> target_category,
                        merged |-> FALSE,
                        ret |-> 0]
    /\ UNCHANGED <<nextId, batch, hierarchy, walk>>

(***************************************************************************)
(* The upload page (app/views.py): duplicate analysis, the three duplicate *)
(* policies and the import.                                                *)
(***************************************************************************)
Skip == "Skip (it's a duplicate)"

Import == "Import (it's different)"

SkipAll == "Skip all duplicates (recommended)"

ImportAll == "Import all transactions (may create duplicates)"

Review == "Review duplicates manually"

\* Mutant of _analyze_duplicates: every candidate is appended to new_transactions.
_analyze_duplicates_all_new(s, transactions) ==
    LET IsDup(t) == transaction_exists(s, t)
        dups == SelectSeq(transactions, IsDup)
        duplicates == [i \in 1..Len(dups) |->
                          [new_transaction |-> dups[i],
                           existing_duplicates |-> find_potential_duplicates(s, dups[i], 1)]]
    IN  [new_transactions |-> transactions,
         new_count        |-> Len(transactions),
         duplicates       |-> duplicates,
         duplicate_count  |-> Len(duplicates),
         total_count      |-> Len(transactions)]

\* Mutant of _analyze_duplicates: a candidate is also asked of the rows of the
\* batch that precede it.
_analyze_duplicates_within_batch(s, transactions) ==
    LET Seen(i) == s \o [k \in 1..(i - 1) |-> InsertValues(transactions[k], 0)]
        IsNewAt(i) == ~transaction_exists(Seen(i), transactions[i])
        IsDupAt(i) == ~IsNewAt(i)
        positions == [i \in DOMAIN transactions |-> i]
        news == SelectSeq(positions, IsNewAt)
        dups == SelectSeq(positions, IsDupAt)
        duplicates == [i \in 1..Len(dups) |->
                          [new_transaction |-> transactions[dups[i]],
                           existing_duplicates |->
                               find_potential_duplicates(s, transactions[dups[i]], 1)]]
    IN  [new_transactions |-> [i \in 1..Len(news) |-> transactions[news[i]]],
         new_count        |-> Len(news),
         duplicates       |-> duplicates,
         duplicate_count  |-> Len(duplicates),
         total_count      |-> Len(transactions)]

\* _analyze_duplicates: each candidate is asked of the table in turn.
_analyze_duplicates(s, transactions) ==
    LET IsNew(t) == ~transaction_exists(s, t)
        IsDup(t) == ~IsNew(t)
        news == SelectSeq(transactions, IsNew)
        dups == SelectSeq(transactions, IsDup)
        duplicates == [i \in 1..Len(dups) |->
                          [new_transaction |-> dups[i],
                           existing_duplicates |-> find_potential_duplicates(s, dups[i], 1)]]
    IN  [new_transactions |-> news,
         new_count        |-> Len(news),
         duplicates       |-> duplicates,
         duplicate_count  |-> Len(duplicates),
         total_count      |-> Len(transactions)]

\* Mutant of selected_to_import: the decision is not looked at.
selected_to_import_all(duplicates, decision) ==
    [k \in 1..Len(duplicates) |-> duplicates[k].new_transaction]

\* The loop of _show_duplicate_review: decision[i] is the value of the radio of
\* row i (the first option, Skip, until the user picks the other).
selected_to_import(duplicates, decision) ==
    LET Chosen(i) == decision[i] = Import
        idx == SelectSeq([i \in 1..Len(duplicates) |-> i], Chosen)
    IN  [k \in 1..Len(idx) |-> duplicates[idx[k]].new_transaction]

\* What a page run hands to _import_transactions_with_progress, if it calls it.
NotCalled == [called |-> FALSE, transactions |-> <<>>]

Called(transactions) == [called |-> TRUE, transactions |-> transactions]

\* _show_duplicate_review: the rows whose radio says Import, handed over when
\* there are any and the button is pressed.
_show_duplicate_review(duplicates, decision, clicked) ==
    LET selected == selected_to_import(duplicates, decision)
    IN  IF selected # <<>> /\ clicked THEN Called(selected) ELSE NotCalled

\* Mutant of PassedToImport: the review hands over the new rows as well.
PassedToImportWithNew(transactions, analysis, duplicate_handling, decision, clicked) ==
    IF analysis.duplicate_count > 0 /\ duplicate_handling = Review
    THEN LET selected == analysis.new_transactions
                            \o selected_to_import(analysis.duplicates, decision)
         IN  IF selected # <<>> /\ clicked THEN Called(selected) ELSE NotCalled
    ELSE LET new_transactions ==
                 IF analysis.duplicate_count > 0
                 THEN IF duplicate_handling = ImportAll
                      THEN transactions
                      ELSE analysis.new_transactions
                 ELSE transactions
         IN  IF new_transactions # <<>> /\ clicked THEN Called(new_transactions) ELSE NotCalled

\* The duplicate handling of _show_upload_page.
PassedToImport(transactions, analysis, duplicate_handling, decision, clicked) ==
    IF analysis.duplicate_count > 0 /\ duplicate_handling = Review
    THEN _show_duplicate_review(analysis.duplicates, decision, clicked)
    ELSE LET new_transactions ==
                 IF analysis.duplicate_count > 0
                 THEN IF duplicate_handling = ImportAll
                      THEN transactions
                      ELSE analysis.new_transactions
                 ELSE transactions
         IN  IF new_transactions # <<>> /\ clicked THEN Called(new_transactions) ELSE NotCalled

\* The import button is rendered only when there is something to import.
ButtonShown(transactions, analysis, duplicate_handling, decision) ==
    PassedToImport(transactions, analysis, duplicate_handling, decision, TRUE).called

\* str.strip() leaves something.
StripNonEmpty(description) == \E i \in DOMAIN description : description[i] # " "

\* The validation loop of _import_transactions_with_progress.
valid_transactions(transactions) ==
    LET Valid(t) == StripNonEmpty(t.description) /\ t.amount # 0
    IN  SelectSeq(transactions, Valid)

\* One run of the upload page on the parsed rows of the uploaded file, with the
\* values of its widgets: the policy radio, the per-row radios, the button.
_show_upload_page(duplicate_handling, decision, clicked, failAt) ==
    /\ batch # <<>>
    /\ LET transactions == batch
           analysis == _analyze_duplicates(store, transactions)
           passed   == PassedToImport(transactions, analysis, duplicate_handling,
                                      decision, clicked)
           valid    == valid_transactions(passed.transactions)
           r        == InsertBatch(store, nextId, valid, failAt)
       IN  /\ failAt <= Len(valid)
           /\ store' = r.store
           /\ nextId' = r.nextId
           /\ call' = [op |-> "_show_upload_page",
                       transactions |-> transactions,
                       analysis |-> analysis,
                       duplicate_handling |-> duplicate_handling,
                       decision |-> decision,
                       clicked |-> clicked,
                       passed |-> passed,
                       ret |-> r.ret]
    /\ batch' = <<>>
    /\ UNCHANGED <<hierarchy, walk>>

(***************************************************************************)
(* Inputs.                                                                 *)
(***************************************************************************)
Transactions(TD, PD, DS, CT, AM) ==
    {[transaction_date |-> td, post_date |-> pd, description |-> ds,
      category |-> ct, amount |-> am] :
        td \in TD, pd \in PD, ds \in DS, ct \in CT, am \in AM}

\* The rows the uploaded files hold: one purchase and every row that differs
\* from it in one field (the other day, the other case, another merchant, an
\* amount with the same float, the opposite amount).
BaseRow == [transaction_date |-> 1, post_date |-> 1, description |-> <<"a">>,
            category |-> "A", amount |-> -2]

Differing(t, u) == {f \in DOMAIN t : t[f] # u[f]}

Samples == {t \in Transactions(Days, Days, Descriptions, {"A"}, Amounts) :
               Cardinality(Differing(t, BaseRow)) <= 1}

\* The values the page's widgets can have in a run on these rows: the policy
\* radio exists only when there are duplicates, the per-row radios only under
\* Review, and the button only when there is something to import.
WidgetValues(transactions) ==
    LET analysis == _analyze_duplicates(store, transactions)
        n == analysis.duplicate_count
    IN  {w \in [duplicate_handling : IF n = 0 THEN {None} ELSE {SkipAll, ImportAll, Review},
                decision : [1..n -> {Skip, Import}] \cup {<<>>},
                clicked : BOOLEAN] :
            /\ DOMAIN w.decision = IF w.duplicate_handling = Review THEN 1..n ELSE {}
            /\ w.clicked => ButtonShown(transactions, analysis, w.duplicate_handling,
                                        w.decision)}

(***************************************************************************)
(* Specification of import and duplicate detection.                        *)
(***************************************************************************)
Init ==
    /\ store = <<>>
    /\ nextId = 1
    /\ batch = <<>>
    /\ hierarchy = <<>>
    /\ walk = [pc |-> "idle"]
    /\ call = [op |-> "init"]

Next ==
    \/ \E t \in Samples : ParseRow(t)
    \/ \E failAt \in 0..MaxRows : insert_transactions_batch(failAt)
    \/ \E i \in 1..MaxRows : TransactionExists(i)
    \/ \E w \in WidgetValues(batch) :
          \E failAt \in 0..MaxRows :
             _show_upload_page(w.duplicate_handling, w.decision, w.clicked, failAt)

Spec == Init /\ [][Next]_vars

(***************************************************************************)
(* Properties of import and duplicate detection.                           *)
(***************************************************************************)
\* Row r of the table is Transaction t as the INSERT statement stores it.
Stores(r, t) ==
    /\ r.transaction_date = isoformat(t.transaction_date)
    /\ r.post_date = isoformat(t.post_date)
    /\ r.description = t.description
    /\ r.category = t.category
    /\ r.amount = float(t.amount)

\* Row r matches candidate t on all four key fields.
ExactMatch(r, t) ==
    /\ r.transaction_date = isoformat(t.transaction_date)
    /\ r.post_date = isoformat(t.post_date)
    /\ r.description = t.description
    /\ r.amount = float(t.amount)

\* Row r matches candidate t on date and amount, the description ignoring case.
FuzzyMatch(r, t) ==
    /\ r.transaction_date = isoformat(t.transaction_date)
    /\ r.amount = float(t.amount)
    /\ LOWER(r.description) = LOWER(t.description)

Matched(s, t) == \E i \in DOMAIN s : ExactMatch(s[i], t) \/ FuzzyMatch(s[i], t)

BatchInserted ==
    /\ call.op = "insert_transactions_batch"
    /\ call.transactions # <<>>
    /\ Len(call.ret) = Len(call.transactions)

\* C1: once every row of a batch has been inserted, transaction_exists is true
\* of each row of that batch, and a second analysis of the batch finds 0 new.
C1_IdempotentReimport ==
    BatchInserted =>
        /\ \A i \in DOMAIN call.transactions :
              transaction_exists(store, call.transactions[i])
        /\ _analyze_duplicates(store, call.transactions).new_count = 0

C1_Witness ==
    /\ BatchInserted
    /\ Len(call.transactions) >= 2
    /\ call.transactions[1] # call.transactions[2]

\* C6: insert_transactions_batch either stores every row of the batch, after the
\* rows already there, and returns one id per row, or (an INSERT failed) returns
\* no id and leaves the table exactly as it was.
C6_BatchAtomic ==
    [][call'.op = "insert_transactions_batch" =>
        LET ts == call'.transactions
        IN  \/ /\ Len(call'.ret) = Len(ts)
               /\ Len(store') = Len(store) + Len(ts)
               /\ SubSeq(store', 1, Len(store)) = store
               /\ \A i \in DOMAIN ts :
                     /\ Stores(store'[Len(store) + i], ts[i])
                     /\ store'[Len(store) + i].id = call'.ret[i]
            \/ /\ call'.ret = <<>>
               /\ store' = store
               /\ nextId' = nextId]_vars

C6_Witness ==
    /\ call.op = "insert_transactions_batch"
    /\ Len(call.transactions) >= 2
    /\ call.ret = <<>>
    /\ store # <<>>

\* C7 as claimed: transaction_exists is true exactly when a stored row equals the
\* candidate on transaction_date, post_date, description and amount.
C7_ExistsIsExactMatch ==
    call.op = "transaction_exists" =>
        (call.ret <=> \E i \in DOMAIN store : ExactMatch(store[i], call.transaction))

\* C7 as amended: transaction_exists is true exactly when a stored row has the
\* candidate's transaction_date and amount and its description ignoring case;
\* post_date and the case of the description do not decide it.
C7_ExistsIsFuzzyMatch ==
    call.op = "transaction_exists" =>
        (call.ret <=> \E i \in DOMAIN store : FuzzyMatch(store[i], call.transaction))

C7_Witness ==
    /\ call.op = "transaction_exists"
    /\ call.ret
    /\ \A i \in DOMAIN store : ~ExactMatch(store[i], call.transaction)

\* C8: _analyze_duplicates splits the batch in two, in order: new_transactions are
\* the candidates no stored row matches exactly or fuzzily, duplicates the
\* others; the counts add up; and under the skip policy the page hands exactly
\* new_transactions to the import.
C8_AnalysisPartitions ==
    [][call'.op = "_show_upload_page" =>
        LET ts == call'.transactions
            a  == call'.analysis
            IsNew(t) == ~Matched(store, t)
            IsDup(t) == Matched(store, t)
        IN  /\ a.total_count = Len(ts)
            /\ a.new_count + a.duplicate_count = a.total_count
            /\ a.new_count = Len(a.new_transactions)
            /\ a.duplicate_count = Len(a.duplicates)
            /\ a.new_transactions = SelectSeq(ts, IsNew)
            /\ [i \in DOMAIN a.duplicates |-> a.duplicates[i].new_transaction]
                  = SelectSeq(ts, IsDup)
            /\ (call'.duplicate_handling \in {SkipAll, None} /\ call'.clicked)
                  => call'.passed = Called(a.new_transactions)]_vars

C8_Witness ==
    /\ call.op = "_show_upload_page"
    /\ call.analysis.new_count >= 1
    /\ call.analysis.duplicate_count >= 1
    /\ call.duplicate_handling = SkipAll
    /\ call.passed.called

\* The rows of the review whose radio says Import, in order.
RECURSIVE Accepted(_, _, _)
Accepted(duplicates, decision, k) ==
    IF k = 0 THEN <<>>
    ELSE IF decision[k] = Import
         THEN Append(Accepted(duplicates, decision, k - 1), duplicates[k].new_transaction)
         ELSE Accepted(duplicates, decision, k - 1)

\* C9: under manual review the page hands to the import only the rows whose
\* decision is Import; rows at Skip are never handed over, and the table grows
\* by no more rows than were accepted.
C9_ReviewImportsOnlyAccepted ==
    (call.op = "_show_upload_page" /\ call.duplicate_handling = Review) =>
        LET accepted == Accepted(call.analysis.duplicates, call.decision,
                                 Len(call.analysis.duplicates))
        IN  /\ call.passed.called => call.passed.transactions = accepted
            /\ ~call.passed.called => call.passed.transactions = <<>>
            /\ Len(call.ret) <= Len(accepted)

C9_Witness ==
    /\ call.op = "_show_upload_page"
    /\ call.duplicate_handling = Review
    /\ call.passed.called
    /\ \E i \in DOMAIN call.decision : call.decision[i] = Skip
    /\ call.ret # <<>>

(***************************************************************************)
(* Specification of the category ledger.                                   *)
(***************************************************************************)
\* Rows that differ in their category only.
CategorySamples == Transactions({1}, {1}, {<<"a">>}, Categories, {-2})

NextLedger ==
    \/ \E t \in CategorySamples : ParseRow(t)
    \/ insert_transactions_batch(0)
    \/ \E categories_to_merge \in SUBSET Categories, target_category \in Categories :
          merge_categories(categories_to_merge, target_category)
    \/ \E categories_to_merge \in SUBSET Categories, target_category \in Categories,
          clicked \in BOOLEAN :
          _show_merge_categories_tab(categories_to_merge, target_category, clicked)

SpecLedger == Init /\ [][NextLedger]_vars

\* C2 as claimed: merge_categories with the target among the merged categories
\* changes no stored row and returns 0.
C2_MergeRejectsSelfTarget ==
    [][(/\ call'.op = "merge_categories"
        /\ call'.target_category \in call'.categories_to_merge)
          => (store' = store /\ call'.ret = 0)]_vars

(***************************************************************************)
(* The category hierarchy.                                                 *)
(***************************************************************************)
\* INSERT OR REPLACE INTO category_hierarchy: category_name is UNIQUE, so the
\* row of that name, if any, is replaced.
InsertOrReplace(h, category_name, parent_category, level) ==
    (category_name :> [parent |-> parent_category, level |-> level]) @@ h

\* The level add_category_hierarchy computes for a category under this parent.
LevelUnder(h, parent_category) ==
    IF parent_category = None THEN 0
    ELSE IF parent_category \in DOMAIN h THEN h[parent_category].level + 1
    ELSE 1

\* The table after add_category_hierarchy: an unknown parent is first added as
\* a root (the nested call), then the category's row is inserted or replaced.
AddCategoryHierarchy(h, category_name, parent_category) ==
    LET withParent ==
            IF parent_category # None /\ parent_category \notin DOMAIN h
            THEN InsertOrReplace(h, parent_category, None, 0)
            ELSE h
    IN  InsertOrReplace(withParent, category_name, parent_category,
                        LevelUnder(h, parent_category))

add_category_hierarchy(category_name, parent_category) ==
    /\ walk.pc # "loop"
    /\ LevelUnder(hierarchy, parent_category) <= MaxLevel
    /\ hierarchy' = AddCategoryHierarchy(hierarchy, category_name, parent_category)
    /\ call' = [op |-> "add_category_hierarchy", category_name |-> category_name,
                parent_category |-> parent_category, ret |-> TRUE]
    /\ walk' = [pc |-> "idle"]
    /\ UNCHANGED <<store, nextId, batch>>

\* get_category_path up to its loop: a category that is not in the hierarchy is
\* its own path.
get_category_path(category_name) ==
    /\ walk.pc # "loop"
    /\ IF category_name \notin DOMAIN hierarchy
       THEN walk' = [pc |-> "done", category_name |-> category_name,
                     current |-> None, path |-> <<category_name>>]
       ELSE walk' = [pc |-> "loop", category_name |-> category_name,
                     current |-> category_name, path |-> <<>>]
    /\ call' = [op |-> "get_category_path", category_name |-> category_name]
    /\ UNCHANGED <<store, nextId, batch, hierarchy>>

\* hierarchy.get(current, {}).get('parent')
ParentOf(h, current) == IF current \in DOMAIN h THEN h[current].parent ELSE None

\* One pass of "while current:": the current category goes to the front of the
\* path and its parent becomes current; the loop ends at a category without
\* parent and path is returned.
PathLoop ==
    /\ walk.pc = "loop"
    /\ IF walk.current # None
       THEN /\ Len(walk.path) < MaxPath
            /\ walk' = [walk EXCEPT !.path = <<walk.current>> \o walk.path,
                                    !.current = ParentOf(hierarchy, walk.current)]
       ELSE walk' = [walk EXCEPT !.pc = "done"]
    /\ call' = [op |-> "get_category_path", category_name |-> walk.category_name]
    /\ UNCHANGED <<store, nextId, batch, hierarchy>>

HierarchyCategories == {"A", "B", "C"}

NextHierarchy ==
    \/ \E category_name \in HierarchyCategories,
          parent_category \in HierarchyCategories \cup {None} :
          add_category_hierarchy(category_name, parent_category)
    \/ \E category_name \in HierarchyCategories : get_category_path(category_name)
    \/ PathLoop

SpecHierarchy == Init /\ [][NextHierarchy]_vars

(***************************************************************************)
(* Properties of the category hierarchy.                                   *)
(***************************************************************************)
\* C3 as claimed: every entry with a parent is one level below its parent, and
\* every entry without parent has level 0.
C3_LevelInvariant ==
    \A c \in DOMAIN hierarchy :
        IF hierarchy[c].parent = None
        THEN hierarchy[c].level = 0
        ELSE /\ hierarchy[c].parent \in DOMAIN hierarchy
             /\ hierarchy[c].level = hierarchy[hierarchy[c].parent].level + 1

\* The categories reached from c by following parent pointers k times or less.
RECURSIVE Ancestors(_, _, _)
Ancestors(h, c, k) ==
    IF k = 0 \/ ParentOf(h, c) = None THEN {}
    ELSE {ParentOf(h, c)} \cup Ancestors(h, ParentOf(h, c), k - 1)

\* C4 as claimed: no category is its own ancestor.
C4_NoCycle ==
    \A c \in DOMAIN hierarchy :
        c \notin Ancestors(hierarchy, c, Cardinality(DOMAIN hierarchy))

\* path is a chain of parent pointers from a root down to category_name.
IsRootPath(h, path, category_name) ==
    /\ path # <<>>
    /\ path[Len(path)] = category_name
    /\ ParentOf(h, path[1]) = None
    /\ \A i \in 1..(Len(path) - 1) : ParentOf(h, path[i + 1]) = path[i]

\* C5 as claimed: the walk of get_category_path ends (it puts no category on
\* the path twice, so it makes no more passes than there are categories) and
\* returns the chain from the root to the category.
C5_PathTerminates ==
    /\ walk.pc = "loop" =>
          /\ Len(walk.path) <= Cardinality(DOMAIN hierarchy)
          /\ \A i, j \in DOMAIN walk.path : walk.path[i] = walk.path[j] => i = j
    /\ walk.pc = "done" => IsRootPath(hierarchy, walk.path, walk.category_name)

(***************************************************************************)
(* CSV format detection (app/csv_parser.py).                               *)
(*                                                                         *)
(* A CSV text is its first line as a sequence of cells, the number of its  *)
(* lines, and whether pandas.read_csv reads it without raising.            *)
(***************************************************************************)
\* self.formats, in insertion order (the order dict.items() yields).
formats ==
    << [format_name |-> "chase",
        required_columns |-> {"Transaction Date", "Post Date", "Description",
                              "Category", "Type", "Amount", "Memo"},
        headerless |-> FALSE],
       [format_name |-> "bank_of_america",
        required_columns |-> {"Date", "Description", "Amount", "Running Bal."},
        headerless |-> FALSE],
       [format_name |-> "american_express",
        required_columns |-> {"Date", "Description", "Amount"},
        headerless |-> FALSE],
       [format_name |-> "wells_fargo",
        required_columns |-> {"Date", "Amount", "Description"},
        headerless |-> FALSE],
       [format_name |-> "wells_fargo_headerless",
        required_columns |-> {},
        headerless |-> TRUE],
       [format_name |-> "capital_one",
        required_columns |-> {"Transaction Date", "Posted Date", "Card No.",
                              "Description", "Category", "Debit", "Credit"},
        headerless |-> FALSE] >>

\* Cells that pass the date test of _detect_headerless_format: a '/' or a '-'
\* that splits the cell in exactly three parts.
DateLikeCells == {"01/15/2024", "01/16/2024", "2024-01-15", "01-15-2024", "15/01/2024"}

\* Cells that float() parses.
NumericCells == {"-45.67", "45.67", "100.00", "0", "nan"}

\* csv_content is empty or whitespace only.
IsBlankText(text) == text.nlines = 0

\* set(df.columns): the cells of the first line.
Columns(text) == Range(text.first)

\* _detect_headerless_format: at least two lines, and a first line of exactly
\* three fields, the first date-like and the second numeric.
_detect_headerless_format(text) ==
    IF text.nlines < 2 THEN None
    ELSE IF /\ Len(text.first) = 3
            /\ text.first[1] \in DateLikeCells
            /\ text.first[2] \in NumericCells
    THEN "wells_fargo_headerless"
    ELSE None

\* The loop over self.formats.items() from entry i on: the first entry whose
\* required_columns are a subset of the columns, None when there is none.
RECURSIVE FirstFormat(_, _)
FirstFormat(columns, i) ==
    IF i > Len(formats) THEN None
    ELSE IF formats[i].required_columns \subseteq columns THEN formats[i].format_name
    ELSE FirstFormat(columns, i + 1)

detect_csv_format(text) ==
    IF IsBlankText(text) THEN None
    ELSE IF ~text.readable THEN None
    ELSE LET by_header == FirstFormat(Columns(text), 1)
         IN  IF by_header # None THEN by_header
             ELSE _detect_headerless_format(text)

\* A call of detect_csv_format.
DetectCsvFormat(text) ==
    /\ call' = [op |-> "detect_csv_format", csv_content |-> text,
                ret |-> detect_csv_format(text)]
    /\ UNCHANGED <<store, nextId, batch, hierarchy, walk>>

\* The column names of the registry, in one fixed order, and a foreign one.
ColumnOrder ==
    <<"Transaction Date", "Post Date", "Posted Date", "Date", "Card No.",
      "Description", "Category", "Type", "Amount", "Debit", "Credit", "Memo",
      "Running Bal.", "Reference">>

\* The cells of ColumnOrder that are in S, in that order.
HeaderOf(S) == LET Chosen(c) == c \in S IN SelectSeq(ColumnOrder, Chosen)

\* Header rows: the required columns of each registry entry, with one column
\* dropped and with one column added.
HeaderRows ==
    ({HeaderOf(formats[i].required_columns \ {c}) :
        i \in DOMAIN formats, c \in Range(ColumnOrder)}
     \cup {HeaderOf(formats[i].required_columns \cup {c}) :
        i \in DOMAIN formats, c \in Range(ColumnOrder)})
    \ {<<>>}

\* First lines of files without header row.
DataRows == SeqsUpTo({"01/15/2024", "2024-01-15", "-45.67", "TARGET STORE"}, MaxFields)
                \ {<<>>}

Texts ==
    {[first |-> <<>>, nlines |-> 0, readable |-> TRUE]}
    \cup [first : (HeaderRows \cup DataRows), nlines : 1..MaxLines, readable : BOOLEAN]

NextDetect == \E text \in Texts : DetectCsvFormat(text)

SpecDetect == Init /\ [][NextDetect]_vars

\* The header-based entries of the registry the columns satisfy.
HeaderMatches(columns) ==
    {i \in DOMAIN formats :
        ~formats[i].headerless /\ formats[i].required_columns \subseteq columns}

Least(S) == CHOOSE i \in S : \A j \in S : i <= j

\* C10 as claimed: detection returns the first header-based format, in registry
\* order, whose required columns are in the header; header-less entries take no
\* part in that pass, so without a header match the result is that of the
\* header-less detection.
C10_FirstHeaderFormatWins ==
    (/\ call.op = "detect_csv_format"
     /\ ~IsBlankText(call.csv_content)
     /\ call.csv_content.readable) =>
        LET matches == HeaderMatches(Columns(call.csv_content))
        IN  IF matches # {}
            THEN call.ret = formats[Least(matches)].format_name
            ELSE call.ret = _detect_headerless_format(call.csv_content)

\* C11 as claimed: no registry entry comes after an entry whose required columns
\* are a subset of its own, so a file whose header is exactly the required
\* columns of a header-based format is detected as that format.
C11_RegistryOrderIsSpecificity ==
    (/\ call.op = "detect_csv_format"
     /\ ~IsBlankText(call.csv_content)
     /\ call.csv_content.readable) =>
        /\ \A i, j \in DOMAIN formats :
              i < j => ~(formats[i].required_columns
                            \subseteq formats[j].required_columns)
        /\ \A i \in DOMAIN formats :
              (/\ ~formats[i].headerless
               /\ Columns(call.csv_content) = formats[i].required_columns)
                 => call.ret = formats[i].format_name

\* The first line has the shape of the header-less format: exactly three
\* fields, the first date-like, the second numeric.
HeaderlessShape(text) ==
    /\ Len(text.first) = 3
    /\ text.first[1] \in DateLikeCells
    /\ text.first[2] \in NumericCells

\* C12 as claimed: a non-empty text whose header matches no header-based format
\* and whose first line has not the header-less shape is not detected.
C12_OtherShapesNotDetected ==
    (/\ call.op = "detect_csv_format"
     /\ ~IsBlankText(call.csv_content)
     /\ HeaderMatches(Columns(call.csv_content)) = {}
     /\ ~HeaderlessShape(call.csv_content)) => call.ret = None

(***************************************************************************)
(* The Transaction constructor and the texts the parser works on.          *)
(*                                                                         *)
(* In the parser a cell is the string it holds, a Decimal is a record      *)
(* [nan, n] with n counted in cents, and a raised exception is the name of *)
(* its class where a value is expected.                                    *)
(***************************************************************************)
Dec(n) == [nan |-> FALSE, n |-> n]

\* Decimal('NaN'), the value of Decimal('nan').
DecimalNaN == [nan |-> TRUE, n |-> 0]

ValueError == "ValueError"

InvalidOperation == "InvalidOperation"

KeyError == "KeyError"

\* str.strip(): the text without its leading and trailing whitespace.
strip(s) ==
    CASE s = " " -> ""
      [] s = " TARGET STORE " -> "TARGET STORE"
      [] s = " Food " -> "Food"
      [] OTHER -> s

\* Decimal == 0: false for a NaN.
DecimalIsZero(d) == ~d.nan /\ d.n = 0

\* __post_init__ that rejects a blank category too.
__post_init__rejects_category(self) ==
    IF strip(self.description) = "" \/ strip(self.category) = ""
    THEN [raised |-> ValueError, self |-> self]
    ELSE IF DecimalIsZero(self.amount)
    THEN [raised |-> ValueError, self |-> self]
    ELSE [raised |-> None, self |-> self]

\* Transaction.__post_init__: the exception it raises, or None; the category
\* is replaced before the amount is looked at.
__post_init__(self) ==
    IF strip(self.description) = "" THEN [raised |-> ValueError, self |-> self]
    ELSE LET categorized ==
                 IF strip(self.category) = ""
                 THEN [self EXCEPT !.category = "Uncategorized"]
                 ELSE self
         IN  IF DecimalIsZero(self.amount)
             THEN [raised |-> ValueError, self |-> categorized]
             ELSE [raised |-> None, self |-> categorized]

\* A construction Transaction(...) with these field values.
NewTransaction(fields) ==
    /\ call' = [op |-> "Transaction", fields |-> fields, ret |-> __post_init__(fields)]
    /\ UNCHANGED <<store, nextId, batch, hierarchy, walk>>

\* Field values handed to the constructor.
FieldValues ==
    [transaction_date : Days, post_date : Days,
     description : {"TARGET STORE", " TARGET STORE ", "", " "},
     category : {"Food", " Food ", "", " "},
     transaction_type : {"Sale"},
     amount : {Dec(-4567), Dec(0), Dec(10000), DecimalNaN},
     memo : {None}]

NextTransaction == \E fields \in FieldValues : NewTransaction(fields)

SpecTransaction == Init /\ [][NextTransaction]_vars

\* C17: the constructor raises ValueError exactly when the description is empty
\* after trimming or the amount is zero; a category that is empty or only
\* whitespace does not reject and becomes "Uncategorized", every other field
\* is kept.
C17_ConstructorValidation ==
    call.op = "Transaction" =>
        LET fields == call.fields
            blank(text) == text \in {"", " "}
            rejected == blank(fields.description) \/ fields.amount = Dec(0)
        IN  /\ call.ret.raised = IF rejected THEN ValueError ELSE None
            /\ ~rejected =>
                  call.ret.self =
                     [fields EXCEPT !.category =
                         IF blank(@) THEN "Uncategorized" ELSE @]

\* A transaction was constructed from a whitespace-only category.
C17_Witness ==
    /\ call.op = "Transaction"
    /\ call.fields.category = " "
    /\ call.ret.raised = None
    /\ call.ret.self.category = "Uncategorized"

(***************************************************************************)
(* Reading a CSV text with pandas and converting its cells.                *)
(*                                                                         *)
(* A text is its first line, its further lines (rows, cell by cell) and    *)
(* whether pandas reads it. A number cell is kept as its text: str() of    *)
(* the number pandas makes of it denotes the same Decimal.                 *)
(***************************************************************************)
\* The float NaN pandas puts in the place of a missing value.
NaN == "float('nan')"

\* pandas' default na_values, among the cells of this model.
na_values == {"", "NA"}

\* The value read_csv gives a cell.
ReadCell(raw) == IF raw \in na_values THEN NaN ELSE raw

\* pd.isna
isna(value) == value = NaN

\* Python's str()
str(value) == IF value = NaN THEN "nan" ELSE value

\* Truth value of a cell value, as in "value or 0" and "if value": a number
\* zero is false, NaN and every non-empty text are true.
Truthy(value) == value # "0"

\* .replace('$', '').replace(',', '')
RemoveCurrency(s) ==
    CASE s = "$45.67" -> "45.67"
      [] s = "$1,234.56" -> "1234.56"
      [] OTHER -> s

\* The texts Decimal() accepts, with their values in cents.
DecimalTexts ==
    {[text |-> "-45.67", value |-> Dec(-4567)],
     [text |-> "45.67", value |-> Dec(4567)],
     [text |-> "100.00", value |-> Dec(10000)],
     [text |-> "1234.56", value |-> Dec(123456)],
     [text |-> "0", value |-> Dec(0)],
     [text |-> "nan", value |-> DecimalNaN]}

\* Decimal(text): InvalidOperation for a text that is no number.
Decimal(text) ==
    LET hits == {e \in DecimalTexts : e.text = text}
    IN  IF hits = {} THEN [raised |-> InvalidOperation, value |-> DecimalNaN]
        ELSE [raised |-> None, value |-> (CHOOSE e \in hits : TRUE).value]

\* Decimal - Decimal: a NaN operand gives NaN.
DecimalSub(a, b) == IF a.nan \/ b.nan THEN DecimalNaN ELSE Dec(a.n - b.n)

\* Decimal > 0: InvalidOperation for a NaN.
DecimalGtZero(d) ==
    IF d.nan THEN [raised |-> InvalidOperation, value |-> FALSE]
    ELSE [raised |-> None, value |-> d.n > 0]

\* The date texts strptime accepts under a format, with the day they denote
\* (the day of January 2024).
DateTexts ==
    {[text |-> "01/15/2024", fmt |-> "%m/%d/%Y", day |-> 15],
     [text |-> "01/16/2024", fmt |-> "%m/%d/%Y", day |-> 16],
     [text |-> "2024-01-15", fmt |-> "%Y-%m-%d", day |-> 15],
     [text |-> "01-15-2024", fmt |-> "%m-%d-%Y", day |-> 15],
     [text |-> "15/01/2024", fmt |-> "%d/%m/%Y", day |-> 15]}

\* datetime.strptime
strptime(date_str, fmt) ==
    LET hits == {e \in DateTexts : e.text = date_str /\ e.fmt = fmt}
    IN  IF hits = {} THEN [raised |-> ValueError, value |-> 0]
        ELSE [raised |-> None, value |-> (CHOOSE e \in hits : TRUE).day]

date_formats == <<"%m/%d/%Y", "%Y-%m-%d", "%m-%d-%Y", "%d/%m/%Y">>

\* The loop of _parse_date over date_formats from the i-th on.
RECURSIVE TryDateFormats(_, _)
TryDateFormats(date_str, i) ==
    IF i > Len(date_formats) THEN [raised |-> ValueError, value |-> 0]
    ELSE LET r == strptime(date_str, date_formats[i])
         IN  IF r.raised = None THEN r ELSE TryDateFormats(date_str, i + 1)

_parse_date(date_str) ==
    IF isna(date_str) THEN [raised |-> ValueError, value |-> 0]
    ELSE TryDateFormats(strip(str(date_str)), 1)

_parse_date_with_format(date_str, date_format) ==
    IF isna(date_str) THEN [raised |-> ValueError, value |-> 0]
    ELSE LET r == strptime(strip(str(date_str)), date_format)
         IN  IF r.raised = None THEN r ELSE _parse_date(strip(str(date_str)))

(***************************************************************************)
(* The row normalizers of CSVParser.                                       *)
(***************************************************************************)
\* format_spec['column_mapping'] of the header-based entries of self.formats.
column_mapping(format_name) ==
    CASE format_name = "chase" ->
            [transaction_date |-> "Transaction Date", post_date |-> "Post Date",
             description |-> "Description", category |-> "Category",
             transaction_type |-> "Type", amount |-> "Amount", memo |-> "Memo"]
      [] format_name = "capital_one" ->
            [transaction_date |-> "Transaction Date", post_date |-> "Posted Date",
             description |-> "Description", category |-> "Category",
             transaction_type |-> None, amount |-> None, memo |-> None]
      [] OTHER ->
            [transaction_date |-> "Date", post_date |-> "Date",
             description |-> "Description", category |-> None,
             transaction_type |-> None, amount |-> "Amount", memo |-> None]

\* format_spec['date_format']
date_format(format_name) ==
    IF format_name = "capital_one" THEN "%Y-%m-%d" ELSE "%m/%d/%Y"

FormatNames == {formats[i].format_name : i \in DOMAIN formats}

FormatSpec(format_name) ==
    formats[CHOOSE i \in DOMAIN formats : formats[i].format_name = format_name]

\* row[column] of a row of a DataFrame with these columns.
Cell(columns, row, column) ==
    ReadCell(row[CHOOSE i \in DOMAIN columns : columns[i] = column])

\* A row that was left out ("continue").
Skipped == [ok |-> FALSE]

Parsed(transaction) == [ok |-> TRUE, transaction |-> transaction]

\* Transaction(...) at the end of a row's try block: ValueError skips the row.
Construct(fields) ==
    LET made == __post_init__(fields)
    IN  IF made.raised = None THEN Parsed(made.self) ELSE Skipped

\* "Payment" if amount > 0 else "Sale"
TypeFromAmount(amount) ==
    LET positive == DecimalGtZero(amount)
    IN  [raised |-> positive.raised,
         value |-> IF positive.value THEN "Payment" ELSE "Sale"]

\* The amount of a row from one cell: None (skip) for a NaN cell and for a text
\* Decimal() refuses.
AmountOfCell(amount_value) ==
    IF isna(amount_value) THEN [raised |-> "continue", value |-> DecimalNaN]
    ELSE Decimal(RemoveCurrency(strip(str(amount_value))))

\* The Decimal of a Debit or Credit cell.
DebitCreditAmount(cell_value) ==
    LET value == IF Truthy(cell_value) THEN cell_value ELSE "0"
    IN  IF Truthy(value) THEN Decimal(RemoveCurrency(str(value)))
        ELSE [raised |-> None, value |-> Dec(0)]

\* The amount of a capital_one row: credit minus debit.
CapitalOneAmount(columns, row) ==
    LET debit_amount == DebitCreditAmount(Cell(columns, row, "Debit"))
        credit_amount == DebitCreditAmount(Cell(columns, row, "Credit"))
    IN  IF debit_amount.raised # None THEN debit_amount
        ELSE IF credit_amount.raised # None THEN credit_amount
        ELSE [raised |-> None,
              value |-> DecimalSub(credit_amount.value, debit_amount.value)]

\* A category cell that is NaN is taken for a category.
CategoryOfCellKeepsNaN(cell) ==
    IF strip(str(cell)) = "" THEN "Uncategorized" ELSE strip(str(cell))

\* The category of a row of parse_csv_generic from its cell.
CategoryOfCell(cell) ==
    IF strip(str(cell)) = "" \/ isna(cell) THEN "Uncategorized" ELSE strip(str(cell))

\* The description of a row of parse_csv_generic and _parse_headerless_csv
\* from its cell.
DescriptionOfCell(cell) ==
    IF strip(str(cell)) = "" THEN "Unknown Transaction" ELSE strip(str(cell))

\* The body of the row loop of parse_csv_generic.
GenericRow(format_type, columns, row) ==
    LET mapping == column_mapping(format_type)
        transaction_date ==
            _parse_date_with_format(Cell(columns, row, mapping.transaction_date),
                                    date_format(format_type))
        post_date ==
            _parse_date_with_format(Cell(columns, row, mapping.post_date),
                                    date_format(format_type))
        amount == IF format_type = "capital_one" THEN CapitalOneAmount(columns, row)
                  ELSE AmountOfCell(Cell(columns, row, mapping.amount))
        description == DescriptionOfCell(Cell(columns, row, mapping.description))
        category ==
            IF mapping.category # None
            THEN CategoryOfCell(Cell(columns, row, mapping.category))
            ELSE "Uncategorized"
        transaction_type ==
            IF mapping.transaction_type # None
            THEN [raised |-> None,
                  value |-> strip(str(Cell(columns, row, mapping.transaction_type)))]
            ELSE TypeFromAmount(amount.value)
        memo ==
            IF mapping.memo # None
            THEN LET memo_value == Cell(columns, row, mapping.memo)
                 IN  IF isna(memo_value) \/ strip(str(memo_value)) = "" THEN None
                     ELSE strip(str(memo_value))
            ELSE None
    IN  IF transaction_date.raised # None \/ post_date.raised # None THEN Skipped
        ELSE IF amount.raised # None THEN Skipped
        ELSE IF transaction_type.raised # None THEN Skipped
        ELSE Construct([transaction_date |-> transaction_date.value,
                        post_date |-> post_date.value,
                        description |-> description,
                        category |-> category,
                        transaction_type |-> transaction_type.value,
                        amount |-> amount.value,
                        memo |-> memo])

\* The body of the row loop of _parse_headerless_csv: the cells by position
\* (transaction_date 0, amount 1, description 2), KeyError for a missing one.
HeaderlessRow(row) ==
    IF Len(row) < 3 THEN Skipped
    ELSE LET transaction_date == _parse_date_with_format(ReadCell(row[1]), "%m/%d/%Y")
             amount == AmountOfCell(ReadCell(row[2]))
             description == DescriptionOfCell(ReadCell(row[3]))
             transaction_type == TypeFromAmount(amount.value)
         IN  IF transaction_date.raised # None THEN Skipped
             ELSE IF amount.raised # None THEN Skipped
             ELSE IF transaction_type.raised # None THEN Skipped
             ELSE Construct([transaction_date |-> transaction_date.value,
                             post_date |-> transaction_date.value,
                             description |-> description,
                             category |-> "Uncategorized",
                             transaction_type |-> transaction_type.value,
                             amount |-> amount.value,
                             memo |-> None])

\* The body of the row loop of parse_chase_csv.
ChaseRow(columns, row) ==
    LET transaction_date == _parse_date(Cell(columns, row, "Transaction Date"))
        post_date == _parse_date(Cell(columns, row, "Post Date"))
        amount == Decimal(str(Cell(columns, row, "Amount")))
        category_cell == Cell(columns, row, "Category")
        category == IF isna(category_cell) \/ strip(str(category_cell)) = ""
                    THEN "Uncategorized" ELSE strip(str(category_cell))
        memo_cell == Cell(columns, row, "Memo")
        memo == IF isna(memo_cell) \/ strip(str(memo_cell)) = "" THEN None
                ELSE strip(str(memo_cell))
    IN  IF transaction_date.raised # None \/ post_date.raised # None THEN Skipped
        ELSE IF amount.raised # None THEN Skipped
        ELSE Construct([transaction_date |-> transaction_date.value,
                        post_date |-> post_date.value,
                        description |-> strip(str(Cell(columns, row, "Description"))),
                        category |-> category,
                        transaction_type |-> strip(str(Cell(columns, row, "Type"))),
                        amount |-> amount.value,
                        memo |-> memo])

\* transactions after the row loop: the rows that were not left out, in order.
Appended(results) ==
    LET IsOk(r) == r.ok
        kept == SelectSeq(results, IsOk)
    IN  [i \in DOMAIN kept |-> kept[i].transaction]

(***************************************************************************)
(* The parse operations of CSVParser. Each returns [raised, value]: the    *)
(* exception that leaves the function, or None, and the list returned.     *)
(***************************************************************************)
Returned(value) == [raised |-> None, value |-> value]

Raised(exception) == [raised |-> exception, value |-> <<>>]

\* "except Exception: return []" around a function body.
ExceptReturnEmpty(result) == IF result.raised # None THEN Returned(<<>>) ELSE result

\* The columns of required_columns missing in df.columns.
missing_columns(required_columns, text) == required_columns \ Range(text.first)

\* _parse_headerless_csv that reads the first line as a header row.
_parse_headerless_csv_with_header(text) ==
    ExceptReturnEmpty(
        IF ~text.readable THEN Raised("ParserError")
        ELSE Returned(Appended([i \in DOMAIN text.rows |-> HeaderlessRow(text.rows[i])])))

\* _parse_headerless_csv: read_csv(header=None) makes a row of every line.
_parse_headerless_csv(text) ==
    ExceptReturnEmpty(
        IF ~text.readable THEN Raised("ParserError")
        ELSE LET lines == <<text.first>> \o text.rows
             IN  Returned(Appended([i \in DOMAIN lines |-> HeaderlessRow(lines[i])])))

\* The try block of parse_csv_generic.
TryParseCsvGeneric(text, format_type) ==
    IF IsBlankText(text) THEN Returned(<<>>)
    ELSE IF format_type \notin FormatNames THEN Raised(ValueError)
    ELSE IF FormatSpec(format_type).headerless THEN _parse_headerless_csv(text)
    ELSE IF ~text.readable THEN Raised("ParserError")
    ELSE IF missing_columns(FormatSpec(format_type).required_columns, text) # {}
    THEN Raised(ValueError)
    ELSE Returned(Appended([i \in DOMAIN text.rows |->
                                GenericRow(format_type, text.first, text.rows[i])]))

parse_csv_generic(text, format_type) ==
    ExceptReturnEmpty(TryParseCsvGeneric(text, format_type))

\* The try block of parse_chase_csv.
TryParseChaseCsv(text) ==
    IF IsBlankText(text) THEN Returned(<<>>)
    ELSE IF ~text.readable THEN Raised("ParserError")
    ELSE IF missing_columns(FormatSpec("chase").required_columns, text) # {}
    THEN Raised(ValueError)
    ELSE Returned(Appended([i \in DOMAIN text.rows |->
                                ChaseRow(text.first, text.rows[i])]))

parse_chase_csv(text) == ExceptReturnEmpty(TryParseChaseCsv(text))

parse_csv_auto(text) ==
    LET detected_format == detect_csv_format(text)
    IN  IF detected_format = None THEN Returned(<<>>)
        ELSE parse_csv_generic(text, detected_format)

\* The calls of the parse operations on the uploaded text.
ParseCsvGeneric(format_type) ==
    /\ "csv_content" \in DOMAIN call
    /\ call' = [op |-> "parse_csv_generic", csv_content |-> call.csv_content,
                format_type |-> format_type,
                ret |-> parse_csv_generic(call.csv_content, format_type)]
    /\ UNCHANGED <<store, nextId, batch, hierarchy, walk>>

ParseChaseCsv ==
    /\ "csv_content" \in DOMAIN call
    /\ call' = [op |-> "parse_chase_csv", csv_content |-> call.csv_content,
                format_type |-> "chase",
                ret |-> parse_chase_csv(call.csv_content)]
    /\ UNCHANGED <<store, nextId, batch, hierarchy, walk>>

ParseCsvAuto ==
    /\ "csv_content" \in DOMAIN call
    /\ call' = [op |-> "parse_csv_auto", csv_content |-> call.csv_content,
                format_type |-> detect_csv_format(call.csv_content),
                ret |-> parse_csv_auto(call.csv_content)]
    /\ UNCHANGED <<store, nextId, batch, hierarchy, walk>>

(***************************************************************************)
(* The uploaded texts: files of each layout whose rows are one well-formed *)
(* row or that row with one cell (or the debit/credit pair) changed.       *)
(***************************************************************************)
Vary(row, i, cell) == [row EXCEPT ![i] = cell]

ChaseHeader ==
    <<"Transaction Date", "Post Date", "Description", "Category", "Type",
      "Amount", "Memo">>

ChaseBase == <<"01/15/2024", "01/16/2024", "TARGET STORE", "Food", "Sale", "-45.67", "">>

ChaseRows ==
    {ChaseBase}
    \cup {Vary(ChaseBase, 1, c) : c \in {"not a date", ""}}
    \cup {Vary(ChaseBase, 3, c) : c \in {""}}
    \cup {Vary(ChaseBase, 4, c) : c \in {"", " "}}
    \cup {Vary(ChaseBase, 6, c) : c \in {"abc", "0", ""}}

AmexHeader == <<"Date", "Description", "Amount">>

AmexBase == <<"01/15/2024", "TARGET STORE", "-45.67">>

AmexRows ==
    {AmexBase}
    \cup {Vary(AmexBase, 1, c) : c \in {"2024-01-15"}}
    \cup {Vary(AmexBase, 2, c) : c \in {"", " ", " TARGET STORE "}}
    \cup {Vary(AmexBase, 3, c) : c \in {"100.00", "$45.67"}}

CapitalOneHeader ==
    <<"Transaction Date", "Posted Date", "Card No.", "Description", "Category",
      "Debit", "Credit">>

CapitalOneBase == <<"2024-01-15", "2024-01-15", "1234", "TARGET STORE", "Food", "45.67", "">>

CapitalOneRows ==
    {CapitalOneBase}
    \cup {Vary(CapitalOneBase, 5, c) : c \in {""}}
    \cup {Vary(Vary(CapitalOneBase, 6, debit), 7, credit) :
            debit \in {"", "45.67"}, credit \in {"", "100.00"}}
    \cup {Vary(CapitalOneBase, 6, c) : c \in {"abc"}}
    \cup {Vary(Vary(CapitalOneBase, 6, "0"), 7, "100.00")}
    \cup {Vary(Vary(CapitalOneBase, 5, ""), 7, "100.00")}

HeaderlessBase == <<"01/15/2024", "-45.67", "TARGET STORE">>

HeaderlessRows ==
    {HeaderlessBase}
    \cup {Vary(HeaderlessBase, 1, c) : c \in {"not a date"}}
    \cup {Vary(HeaderlessBase, 2, c) : c \in {"100.00", "abc", "0"}}
    \cup {Vary(HeaderlessBase, 3, c) : c \in {""}}

\* Lines of header-less files that are one column off.
OffRows == {<<"01/15/2024", "-45.67">>, <<"01/15/2024", "-45.67", "TARGET STORE", "Food">>}

Text(first, rows, readable) ==
    [first |-> first, rows |-> rows, nlines |-> 1 + Len(rows), readable |-> readable]

BlankText == [first |-> <<>>, rows |-> <<>>, nlines |-> 0, readable |-> TRUE]

HeaderFiles(header, Rows) ==
    {Text(header, rows, TRUE) : rows \in SeqsUpTo(Rows, MaxFileRows)}

HeaderlessFiles(Rows) ==
    {Text(first, rows, TRUE) : first \in Rows, rows \in SeqsUpTo(Rows, MaxFileRows - 1)}

Files ==
    {BlankText, Text(ChaseHeader, <<ChaseBase, ChaseBase>>, FALSE),
     Text(HeaderlessBase, <<HeaderlessBase>>, FALSE)}
    \cup HeaderFiles(ChaseHeader, ChaseRows)
    \cup HeaderFiles(AmexHeader, AmexRows)
    \cup HeaderFiles(CapitalOneHeader, CapitalOneRows)
    \cup HeaderlessFiles(HeaderlessRows)
    \cup UNION {HeaderlessFiles({line}) : line \in OffRows}

\* A text was uploaded.
InitParse ==
    /\ store = <<>>
    /\ nextId = 1
    /\ batch = <<>>
    /\ hierarchy = <<>>
    /\ walk = [pc |-> "idle"]
    /\ \E text \in Files : call = [op |-> "upload", csv_content |-> text]

NextParse ==
    \/ \E format_type \in FormatNames \cup {"unknown"} : ParseCsvGeneric(format_type)
    \/ ParseChaseCsv
    \/ ParseCsvAuto

SpecParse == InitParse /\ [][NextParse]_vars

(***************************************************************************)
(* Properties of the parse operations.                                     *)
(***************************************************************************)
\* The cell holds a date in one of the formats the parser tries.
IsDateText(raw) == \E e \in DateTexts : e.text = strip(raw)

DayOf(raw) == (CHOOSE e \in DateTexts : e.text = strip(raw)).day

\* The cell holds a decimal number, with or without '$' and ','.
IsAmountText(raw) ==
    \E e \in DecimalTexts : e.text = RemoveCurrency(strip(raw)) /\ ~e.value.nan

AmountOf(raw) ==
    (CHOOSE e \in DecimalTexts : e.text = RemoveCurrency(strip(raw))).value

IsBlankCell(raw) == raw \in {"", " "}

\* Every line of the text has three fields.
ThreeColumns(text) ==
    /\ Len(text.first) = 3
    /\ \A i \in DOMAIN text.rows : Len(text.rows[i]) = 3

\* A line of a header-less file that holds a transaction: a date, a decimal
\* amount that is not zero, and a description.
ValidLine(line) ==
    /\ IsDateText(line[1])
    /\ IsAmountText(line[2])
    /\ AmountOf(line[2]) # Dec(0)

\* C13: a header-less text of three-field lines whose first line is (date,
\* amount, description), a single line included, is detected as the header-less
\* format, and parse_csv_auto returns one transaction per valid line, the first
\* line included, in order, each "Uncategorized", and a "Sale" when its amount
\* is negative.
C13_HeaderlessAutoParse ==
    (/\ call.op = "parse_csv_auto"
     /\ ~IsBlankText(call.csv_content)
     /\ call.csv_content.readable
     /\ ThreeColumns(call.csv_content)
     /\ HeaderlessShape(call.csv_content)) =>
        LET lines == <<call.csv_content.first>> \o call.csv_content.rows
            valid == SelectSeq(lines, ValidLine)
            transactions == call.ret.value
        IN  /\ call.format_type = "wells_fargo_headerless"
            /\ call.ret.raised = None
            /\ Len(transactions) = Len(valid)
            /\ \A i \in DOMAIN transactions :
                  /\ transactions[i].transaction_date = DayOf(valid[i][1])
                  /\ transactions[i].amount = AmountOf(valid[i][2])
                  /\ transactions[i].category = "Uncategorized"
                  /\ transactions[i].amount.n < 0 =>
                        transactions[i].transaction_type = "Sale"

\* The single line "01/15/2024,-45.67,TARGET STORE" was parsed to one
\* transaction.
C13_Witness ==
    /\ call.op = "parse_csv_auto"
    /\ call.csv_content = Text(HeaderlessBase, <<>>, TRUE)
    /\ Len(call.ret.value) = 1
    /\ call.ret.value[1].transaction_type = "Sale"
    /\ call.ret.value[1].category = "Uncategorized"
    /\ call.ret.value[1].amount = Dec(-4567)

\* The cell of a row of the uploaded text under a column name.
RawCell(text, row, column) == row[CHOOSE i \in DOMAIN text.first : text.first[i] = column]

\* The text has a header row with the required columns of the format.
HasRequiredColumns(text, format_type) ==
    /\ ~IsBlankText(text)
    /\ text.readable
    /\ FormatSpec(format_type).required_columns \subseteq Range(text.first)

\* The decimal of a Debit or Credit cell, a blank cell counted as 0.
BlankAsZero(raw) == IF IsBlankCell(raw) THEN Dec(0) ELSE AmountOf(raw)

\* A row with only a debit, resp. only a credit.
PureDebit(text, row) ==
    /\ IsAmountText(RawCell(text, row, "Debit"))
    /\ AmountOf(RawCell(text, row, "Debit")) # Dec(0)
    /\ IsBlankCell(RawCell(text, row, "Credit"))

PureCredit(text, row) ==
    /\ IsAmountText(RawCell(text, row, "Credit"))
    /\ AmountOf(RawCell(text, row, "Credit")) # Dec(0)
    /\ IsBlankCell(RawCell(text, row, "Debit"))

\* C14 as claimed: in the debit/credit format a row with only a debit or only
\* a credit (and valid dates) is not skipped, and its amount is credit minus
\* debit with the blank cell counted as 0: -debit, resp. +credit.
C14_DebitCreditAmount ==
    (/\ call.op = "parse_csv_generic"
     /\ call.format_type = "capital_one"
     /\ HasRequiredColumns(call.csv_content, "capital_one")
     /\ \A i \in DOMAIN call.csv_content.rows :
           LET row == call.csv_content.rows[i]
           IN  /\ IsDateText(RawCell(call.csv_content, row, "Transaction Date"))
               /\ IsDateText(RawCell(call.csv_content, row, "Posted Date"))
               /\ PureDebit(call.csv_content, row) \/ PureCredit(call.csv_content, row)) =>
        /\ Len(call.ret.value) = Len(call.csv_content.rows)
        /\ \A i \in DOMAIN call.ret.value :
              LET row == call.csv_content.rows[i]
              IN  call.ret.value[i].amount =
                     DecimalSub(BlankAsZero(RawCell(call.csv_content, row, "Credit")),
                                BlankAsZero(RawCell(call.csv_content, row, "Debit")))

\* The amount the row holds under the format's amount rule, when it holds one.
HasAmount(text, format_type, row) ==
    IF format_type = "capital_one"
    THEN \A column \in {"Debit", "Credit"} :
            IsBlankCell(RawCell(text, row, column)) \/ IsAmountText(RawCell(text, row, column))
    ELSE IsAmountText(RawCell(text, row, column_mapping(format_type).amount))

RowAmount(text, format_type, row) ==
    IF format_type = "capital_one"
    THEN DecimalSub(BlankAsZero(RawCell(text, row, "Credit")),
                    BlankAsZero(RawCell(text, row, "Debit")))
    ELSE AmountOf(RawCell(text, row, column_mapping(format_type).amount))

\* The row normalizes: its dates parse and its amount is a decimal other than 0.
Normalizes(text, format_type, row) ==
    /\ IsDateText(RawCell(text, row, column_mapping(format_type).transaction_date))
    /\ IsDateText(RawCell(text, row, column_mapping(format_type).post_date))
    /\ HasAmount(text, format_type, row)
    /\ RowAmount(text, format_type, row) # Dec(0)

\* The call parsed a text that has the required columns of its header-based
\* format.
ParsedWithHeader ==
    /\ call.op \in {"parse_csv_generic", "parse_chase_csv"}
    /\ call.format_type \in FormatNames
    /\ ~FormatSpec(call.format_type).headerless
    /\ HasRequiredColumns(call.csv_content, call.format_type)

\* C15 as claimed: for a file with the required columns, parse returns the
\* rows that normalize, in input order, and no other: a row with an
\* unparseable date, a non-numeric amount or a zero amount is skipped and
\* changes nothing for the other rows.
C15_RowFailuresSkipped ==
    ParsedWithHeader =>
        LET text == call.csv_content
            Good(row) == Normalizes(text, call.format_type, row)
            kept == SelectSeq(text.rows, Good)
        IN  /\ Len(call.ret.value) = Len(kept)
            /\ \A i \in DOMAIN call.ret.value :
                  /\ call.ret.value[i].amount = RowAmount(text, call.format_type, kept[i])
                  /\ call.ret.value[i].transaction_date =
                        DayOf(RawCell(text, kept[i],
                                      column_mapping(call.format_type).transaction_date))

\* C16 as claimed: parse_csv_generic and parse_chase_csv never raise, and
\* return the empty list for an empty or whitespace-only text, for an unknown
\* format name, for a file that lacks required columns and for a file in
\* which every row fails.
C16_ParseNeverRaises ==
    call.op \in {"parse_csv_generic", "parse_chase_csv"} =>
        LET text == call.csv_content
            known == call.format_type \in FormatNames
            lacking == /\ known
                       /\ ~IsBlankText(text)
                       /\ text.readable
                       /\ ~FormatSpec(call.format_type).required_columns
                              \subseteq Range(text.first)
            all_fail == /\ ParsedWithHeader
                        /\ \A i \in DOMAIN text.rows :
                              ~Normalizes(text, call.format_type, text.rows[i])
        IN  /\ call.ret.raised = None
            /\ (IsBlankText(text) \/ ~known \/ lacking \/ all_fail) =>
                  call.ret.value = <<>>

\* The rows the call read from the text: every line for the header-less
\* format, the lines after the header row otherwise.
RowsRead ==
    IF FormatSpec(call.format_type).headerless
    THEN <<call.csv_content.first>> \o call.csv_content.rows
    ELSE call.csv_content.rows

\* The call parsed a text under a registered format.
ParsedUnderFormat ==
    /\ call.op \in {"parse_csv_generic", "parse_chase_csv", "parse_csv_auto"}
    /\ call.format_type \in FormatNames

\* C18: under a format without category column every transaction is
\* "Uncategorized", and under a format with one so is the transaction of every
\* row whose category cell is blank or whitespace-only (rows and transactions
\* are matched when no row was skipped).
C18_CategoryDefault ==
    ParsedUnderFormat =>
        LET text == call.csv_content
            transactions == call.ret.value
        IN  IF column_mapping(call.format_type).category = None
               \/ FormatSpec(call.format_type).headerless
            THEN \A i \in DOMAIN transactions :
                    transactions[i].category = "Uncategorized"
            ELSE Len(transactions) = Len(text.rows) =>
                    \A i \in DOMAIN transactions :
                       IsBlankCell(RawCell(text, text.rows[i], "Category")) =>
                          transactions[i].category = "Uncategorized"

\* Rows with a blank category cell were parsed by parse_csv_generic, under the
\* chase and the capital_one format.
C18_Witness ==
    /\ call.op = "parse_csv_generic"
    /\ call.format_type \in {"chase", "capital_one"}
    /\ Len(call.ret.value) = 2
    /\ Len(call.csv_content.rows) = 2
    /\ RawCell(call.csv_content, call.csv_content.rows[1], "Category") = ""
    /\ RawCell(call.csv_content, call.csv_content.rows[2], "Category") \in {" ", ""}
    /\ call.ret.value[1].category = "Uncategorized"

\* C19 as claimed: a row with a valid date and amount whose description cell
\* is blank or whitespace-only is not skipped, and its transaction's
\* description is "Unknown Transaction" (single-amount header formats and the
\* header-less format, files whose rows all have a valid date and amount).
C19_DescriptionSubstitution ==
    (/\ call.op = "parse_csv_generic"
     /\ call.format_type \in FormatNames \ {"capital_one"}
     /\ IF FormatSpec(call.format_type).headerless
        THEN /\ ~IsBlankText(call.csv_content)
             /\ call.csv_content.readable
             /\ ThreeColumns(call.csv_content)
             /\ \A i \in DOMAIN RowsRead : ValidLine(RowsRead[i])
        ELSE /\ HasRequiredColumns(call.csv_content, call.format_type)
             /\ \A i \in DOMAIN RowsRead :
                   Normalizes(call.csv_content, call.format_type, RowsRead[i])) =>
        /\ Len(call.ret.value) = Len(RowsRead)
        /\ \A i \in DOMAIN call.ret.value :
              LET cell == IF FormatSpec(call.format_type).headerless
                          THEN RowsRead[i][3]
                          ELSE RawCell(call.csv_content, RowsRead[i], "Description")
              IN  IsBlankCell(cell) =>
                     call.ret.value[i].description = "Unknown Transaction"

\* Transaction.is_expense and Transaction.is_payment: a comparison of a NaN
\* raises InvalidOperation.
is_expense(self) ==
    IF self.amount.nan THEN [raised |-> InvalidOperation, value |-> FALSE]
    ELSE [raised |-> None, value |-> self.amount.n < 0]

is_payment(self) ==
    IF self.amount.nan THEN [raised |-> InvalidOperation, value |-> FALSE]
    ELSE [raised |-> None, value |-> self.amount.n > 0]

\* C20 as claimed: every transaction a parse operation returns is an expense
\* exactly when its amount is negative, and is an expense or a payment but not
\* both.
C20_SignInvariant ==
    call.op \in {"parse_csv_generic", "parse_chase_csv", "parse_csv_auto"} =>
        \A i \in DOMAIN call.ret.value :
            LET t == call.ret.value[i]
            IN  /\ is_expense(t).raised = None
                /\ is_payment(t).raised = None
                /\ ~t.amount.nan
                /\ is_expense(t).value = (t.amount.n < 0)
                /\ is_expense(t).value # is_payment(t).value

(***************************************************************************)
(* The dictionary form of a Transaction (app/models.py).                   *)
(*                                                                         *)
(* Here a Transaction is the record of its eight fields, with the dates as *)
(* day numbers and the amount as a Decimal [nan, n] counted in the units   *)
(* of float(): a unit finer than a float keeps. A float is [nan, f].       *)
(***************************************************************************)
\* id = None, the id of a Transaction that is not stored (stored ids start at 1).
NoId == 0

\* datetime.fromisoformat(): the day number its two digits denote.
fromisoformat(s) == s[1] * 10 + s[2]

\* Decimal(str(x)) of a float x: str() writes the shortest decimal text that
\* reads back as x, Decimal() takes that text exactly.
DecimalOfFloatStr(x) == IF x.nan THEN DecimalNaN ELSE Dec(2 * x.f)

\* Transaction.to_dict: the dates as ISO text, the amount as float(amount).
to_dict(self) ==
    [id               |-> self.id,
     transaction_date |-> isoformat(self.transaction_date),
     post_date        |-> isoformat(self.post_date),
     description      |-> self.description,
     category         |-> self.category,
     transaction_type |-> self.transaction_type,
     amount           |-> [nan |-> self.amount.nan, f |-> float(self.amount.n)],
     memo             |-> self.memo]

\* Transaction.from_dict: cls(...) with the converted values, so the
\* constructor's __post_init__ runs on them.
from_dict(data) ==
    __post_init__(
        [id               |-> data.id,
         transaction_date |-> fromisoformat(data.transaction_date),
         post_date        |-> fromisoformat(data.post_date),
         description      |-> data.description,
         category         |-> data.category,
         transaction_type |-> data.transaction_type,
         amount           |-> DecimalOfFloatStr(data.amount),
         memo             |-> data.memo])

\* The dataclass __eq__: the field tuples compared with ==; a NaN amount is
\* equal to no Decimal.
TransactionEq(t, u) == t = u /\ ~t.amount.nan

\* from_dict(t.to_dict()) for a Transaction t the constructor has accepted.
RoundTrip(fields) ==
    /\ __post_init__(fields).raised = None
    /\ LET t == __post_init__(fields).self
       IN  call' = [op |-> "from_dict(to_dict)", t |-> t, data |-> to_dict(t),
                    ret |-> from_dict(to_dict(t))]
    /\ UNCHANGED <<store, nextId, batch, hierarchy, walk>>

\* Field values of the Transactions taken through the dictionary form: with
\* and without id and memo, amounts a float keeps (even) and amounts with more
\* digits than a float keeps (odd).
RoundTripValues ==
    [id : {NoId, 1}, transaction_date : Days, post_date : Days,
     description : {"TARGET STORE", " TARGET STORE "},
     category : {"Food", " "},
     transaction_type : {"Sale"},
     amount : {Dec(-4568), Dec(-4567), Dec(1), Dec(10000)},
     memo : {None, "", "Test memo"}]

NextRoundTrip == \E fields \in RoundTripValues : RoundTrip(fields)

SpecRoundTrip == Init /\ [][NextRoundTrip]_vars

\* C21: for every valid Transaction t, from_dict(to_dict(t)) == t: the dates
\* travel as ISO texts, the amount as an exact decimal, and id and memo are
\* kept as they were (None or a value).
C21_RoundTrip ==
    call.op = "from_dict(to_dict)" =>
        /\ call.data.transaction_date = isoformat(call.t.transaction_date)
        /\ call.data.post_date = isoformat(call.t.post_date)
        /\ ~call.data.amount.nan /\ 2 * call.data.amount.f = call.t.amount.n
        /\ call.ret.raised = None
        /\ TransactionEq(call.ret.self, call.t)

(***************************************************************************)
(* Single-row and category operations of the DatabaseManager (app/db.py).  *)
(***************************************************************************)
MaxStored == 2

MaxId == 3

\* Mutant of RowsWithId: the WHERE clause selects the ids up to the given one.
RowsUpToId(s, transaction_id) == {i \in DOMAIN s : s[i].id <= transaction_id}

\* WHERE id = ?: the positions of the rows with that id.
RowsWithId(s, transaction_id) == {i \in DOMAIN s : s[i].id = transaction_id}

\* UPDATE transactions SET <updates> WHERE <rows>: the selected rows get the
\* new values of the named columns, everything else stays.
SetWhere(s, rows, updates) ==
    [i \in DOMAIN s |->
        IF i \in rows
        THEN [f \in DOMAIN s[i] |-> IF f \in DOMAIN updates THEN updates[f] ELSE s[i][f]]
        ELSE s[i]]

\* DELETE FROM transactions WHERE <rows>.
DeleteWhere(s, rows) ==
    LET Kept(r) == \A i \in rows : s[i] # r
    IN  SelectSeq(s, Kept)

\* insert_transaction: one INSERT, committed; returns the new row's id.
insert_transaction(t) ==
    /\ Len(store) < MaxStored
    /\ nextId <= MaxId
    /\ store' = Append(store, InsertValues(t, nextId))
    /\ nextId' = nextId + 1
    /\ call' = [op |-> "insert_transaction", transaction |-> t, ret |-> nextId]
    /\ UNCHANGED <<batch, hierarchy, walk>>

\* update_transaction_category: False without commit when no row has the id.
update_transaction_category(transaction_id, new_category) ==
    LET rows == RowsWithId(store, transaction_id)
    IN  /\ store' = SetWhere(store, rows, [category |-> new_category])
        /\ call' = [op |-> "update_transaction_category",
                    transaction_id |-> transaction_id,
                    new_category |-> new_category,
                    ret |-> Cardinality(rows) # 0]
        /\ UNCHANGED <<nextId, batch, hierarchy, walk>>

\* The columns update_transaction and update_transactions_batch may set.
allowed_fields == {"description", "category", "transaction_type", "amount", "memo",
                   "transaction_date", "post_date"}

\* The parameters bound to the SET clauses: a datetime as its ISO text, the
\* amount as a float, every other value as it is; other keywords are ignored.
SetClauses(updates) ==
    [f \in DOMAIN updates \cap allowed_fields |->
        IF f \in {"transaction_date", "post_date"} THEN isoformat(updates[f])
        ELSE IF f = "amount" THEN float(updates[f])
        ELSE updates[f]]

\* update_transaction: False for no keywords, for no allowed keyword and for
\* an unknown id; otherwise one UPDATE of the row.
update_transaction(transaction_id, updates) ==
    LET rows == RowsWithId(store, transaction_id)
        set_clauses == SetClauses(updates)
        issued == DOMAIN updates # {} /\ DOMAIN set_clauses # {}
    IN  /\ store' = IF issued THEN SetWhere(store, rows, set_clauses) ELSE store
        /\ call' = [op |-> "update_transaction",
                    transaction_id |-> transaction_id,
                    updates |-> updates,
                    ret |-> issued /\ Cardinality(rows) # 0]
        /\ UNCHANGED <<nextId, batch, hierarchy, walk>>

\* delete_transaction: False when no row has the id.
delete_transaction(transaction_id) ==
    LET rows == RowsWithId(store, transaction_id)
    IN  /\ store' = DeleteWhere(store, rows)
        /\ call' = [op |-> "delete_transaction",
                    transaction_id |-> transaction_id,
                    ret |-> Cardinality(rows) # 0]
        /\ UNCHANGED <<nextId, batch, hierarchy, walk>>

\* rename_category: UPDATE ... SET category = new WHERE category = old.
rename_category(old_category, new_category) ==
    /\ store' = UpdateCategoryIn(store, {old_category}, new_category)
    /\ call' = [op |-> "rename_category",
                old_category |-> old_category,
                new_category |-> new_category,
                ret |-> RowCountIn(store, {old_category})]
    /\ UNCHANGED <<nextId, batch, hierarchy, walk>>

\* delete_category: the same UPDATE with the replacement category.
delete_category(category, replacement_category) ==
    /\ store' = UpdateCategoryIn(store, {category}, replacement_category)
    /\ call' = [op |-> "delete_category",
                category |-> category,
                replacement_category |-> replacement_category,
                ret |-> RowCountIn(store, {category})]
    /\ UNCHANGED <<nextId, batch, hierarchy, walk>>

\* get_categories: the DISTINCT categories that are not the empty text (the
\* column is NOT NULL); their ORDER BY is left out.
get_categories(s) == {s[i].category : i \in {j \in DOMAIN s : s[j].category # ""}}

\* The category values the callers pass: names and the empty text.
CategoryValues == Categories \cup {""}

\* The keyword arguments of update_transaction in the model.
CategoryUpdates ==
    {[category |-> c] : c \in CategoryValues}
        \cup {[x \in {} |-> None], [notes |-> "n"], [amount |-> -3]}

NextStore ==
    \/ \E t \in CategorySamples : insert_transaction(t)
    \/ \E transaction_id \in 1..MaxId, new_category \in CategoryValues :
          update_transaction_category(transaction_id, new_category)
    \/ \E transaction_id \in 1..MaxId, updates \in CategoryUpdates :
          update_transaction(transaction_id, updates)
    \/ \E transaction_id \in 1..MaxId : delete_transaction(transaction_id)
    \/ \E old_category \in CategoryValues, new_category \in CategoryValues :
          rename_category(old_category, new_category)
    \/ \E category \in Categories, replacement_category \in CategoryValues :
          delete_category(category, replacement_category)
    \/ \E categories_to_merge \in SUBSET Categories, target_category \in Categories :
          merge_categories(categories_to_merge, target_category)

SpecStore == Init /\ [][NextStore]_vars

\* C22: rename_category(old, new) with old # new sets the category to new on
\* exactly the rows that had old and returns their number; no row is added or
\* removed, every other row and field is as before, and old is no longer among
\* get_categories(): with new already in use the two categories are merged.
C22_RenameFrame ==
    [][(call'.op = "rename_category" /\ call'.old_category # call'.new_category) =>
          LET old == call'.old_category
              new == call'.new_category
              had == {i \in DOMAIN store : store[i].category = old}
          IN  /\ DOMAIN store' = DOMAIN store
              /\ \A i \in had : store'[i] = [store[i] EXCEPT !.category = new]
              /\ \A i \in DOMAIN store \ had : store'[i] = store[i]
              /\ call'.ret = Cardinality(had)
              /\ old \notin get_categories(store')
              /\ get_categories(store') \subseteq
                    (get_categories(store) \ {old}) \cup {new}]_vars

\* A rename that merged: rows of old and rows of new before, two rows of new after.
C22_Witness ==
    /\ call.op = "rename_category"
    /\ call.old_category = "A" /\ call.new_category = "B"
    /\ call.ret = 1
    /\ Len(store) = 2
    /\ \A i \in DOMAIN store : store[i].category = "B"

\* C23: every key of get_category_stats() is contained in get_categories().
C23_StatsWithinCategories == StatCategories(store) \subseteq get_categories(store)

\* C25: update_transaction_category and delete_transaction return False for an
\* id no row has and leave the table as it is; for the id of a row they return
\* True and change only that row: its category, or its presence.
C25_UnknownIdIsNoOp ==
    [][/\ call'.op = "update_transaction_category" =>
            LET hit == {i \in DOMAIN store : store[i].id = call'.transaction_id}
            IN  /\ call'.ret = (hit # {})
                /\ hit = {} => store' = store
                /\ DOMAIN store' = DOMAIN store
                /\ \A i \in DOMAIN store :
                      store'[i] = IF i \in hit
                                  THEN [store[i] EXCEPT !.category = call'.new_category]
                                  ELSE store[i]
       /\ call'.op = "delete_transaction" =>
            LET hit == {i \in DOMAIN store : store[i].id = call'.transaction_id}
                Other(r) == r.id # call'.transaction_id
            IN  /\ call'.ret = (hit # {})
                /\ hit = {} => store' = store
                /\ store' = SelectSeq(store, Other)]_vars

\* The first of two rows was deleted by its id; the other row is still there.
C25_Witness ==
    /\ call.op = "delete_transaction"
    /\ call.transaction_id = 1
    /\ call.ret
    /\ Len(store) = 1 /\ store[1].id = 2

(***************************************************************************)
(* Editing stored rows and reading them back (app/db.py).                  *)
(***************************************************************************)
\* update_transactions_batch: 0 for no ids, no keywords or no allowed keyword;
\* otherwise one UPDATE ... WHERE id IN (ids), and its rowcount.
update_transactions_batch(transaction_ids, updates) ==
    LET rows == {i \in DOMAIN store : store[i].id \in Range(transaction_ids)}
        set_clauses == SetClauses(updates)
        issued == transaction_ids # <<>> /\ DOMAIN updates # {} /\ DOMAIN set_clauses # {}
    IN  /\ store' = IF issued THEN SetWhere(store, rows, set_clauses) ELSE store
        /\ call' = [op |-> "update_transactions_batch",
                    transaction_ids |-> transaction_ids,
                    updates |-> updates,
                    ret |-> IF issued THEN Cardinality(rows) ELSE 0]
        /\ UNCHANGED <<nextId, batch, hierarchy, walk>>

\* Transaction.from_dict(dict(row)): the dates read from their ISO texts, the
\* amount as Decimal(str(float)), then the checks of __post_init__.
FromRow(row) ==
    LET self == [id               |-> row.id,
                 transaction_date |-> fromisoformat(row.transaction_date),
                 post_date        |-> fromisoformat(row.post_date),
                 description      |-> row.description,
                 category         |-> IF strip(row.category) = ""
                                      THEN "Uncategorized" ELSE row.category,
                 amount           |-> 2 * row.amount]
    IN  IF ~StripNonEmpty(row.description) THEN [raised |-> ValueError, self |-> self]
        ELSE IF self.amount = 0 THEN [raised |-> ValueError, self |-> self]
        ELSE [raised |-> None, self |-> self]

\* ORDER BY transaction_date DESC, id DESC.
OrderedDesc(s) ==
    LET Before(r, q) ==
            \/ ~IsoLeq(r.transaction_date, q.transaction_date)
            \/ r.transaction_date = q.transaction_date /\ r.id > q.id
    IN  CHOOSE rows \in [DOMAIN s -> Range(s)] :
            /\ Range(rows) = Range(s)
            /\ \A i, j \in DOMAIN s : i < j => Before(rows[i], rows[j])

\* get_all_transactions: every row is rebuilt in turn; only sqlite3.Error is
\* caught, the ValueError of a row that does not rebuild leaves the method.
get_all_transactions ==
    LET rows == OrderedDesc(store)
        results == [i \in DOMAIN rows |-> FromRow(rows[i])]
        failed == {i \in DOMAIN rows : results[i].raised # None}
    IN  /\ call' = [op |-> "get_all_transactions",
                    ret |-> IF failed # {}
                            THEN Raised(ValueError)
                            ELSE Returned([i \in DOMAIN rows |-> results[i].self])]
        /\ UNCHANGED <<store, nextId, batch, hierarchy, walk>>

\* The row inserted: a purchase that the constructor accepts.
RowSamples == Transactions({1}, {1}, {<<"a">>}, {"A"}, {-2})

\* The keyword arguments of the edits: a blank description, a zero amount,
\* another category, and an unknown keyword.
RowUpdates ==
    {[description |-> <<" ">>], [amount |-> 0], [category |-> "B"], [notes |-> "n"]}

NextRows ==
    \/ \E t \in RowSamples : insert_transaction(t)
    \/ \E t \in RowSamples : Len(store) + Len(batch) < MaxStored /\ ParseRow(t)
    \/ nextId + Len(batch) <= MaxId + 1 /\ insert_transactions_batch(0)
    \/ \E transaction_id \in 1..MaxId, updates \in RowUpdates :
          update_transaction(transaction_id, updates)
    \/ \E transaction_ids \in SeqsUpTo(1..MaxStored, 2), updates \in RowUpdates :
          update_transactions_batch(transaction_ids, updates)
    \/ rename_category("A", "B")
    \/ get_all_transactions

SpecRows == Init /\ [][NextRows]_vars

\* C26: every stored row has a description that is not empty after trimming
\* and an amount that is not zero, so get_all_transactions() rebuilds every
\* row and does not raise.
C26_StoredRowsRebuild ==
    /\ \A i \in DOMAIN store :
          StripNonEmpty(store[i].description) /\ store[i].amount # 0
    /\ call.op = "get_all_transactions" =>
          call.ret.raised = None /\ Len(call.ret.value) = Len(store)

(***************************************************************************)
(* validate_csv_format (app/csv_parser.py).                                *)
(***************************************************************************)
\* formats['wells_fargo_headerless']['column_mapping']: a column index as a
\* one-element sequence, None as the empty sequence.
headerless_column_mapping ==
    [transaction_date |-> <<0>>, post_date |-> <<0>>, description |-> <<2>>,
     category |-> <<>>, transaction_type |-> <<>>, amount |-> <<1>>, memo |-> <<>>]

\* str.lower() of a format name.
lower(s) == IF s = "CHASE" THEN "chase" ELSE s

\* The result dictionary: valid, detected_format and missing_columns.
ValidationResult(valid, detected_format, missing) ==
    [valid |-> valid, detected_format |-> detected_format, missing_columns |-> missing]

\* validate_csv_format. The text is read with its first line as the header
\* whatever the format; an exception of read_csv gives the initial result.
validate_csv_format(text, format_type) ==
    IF IsBlankText(text) THEN ValidationResult(FALSE, None, {})
    ELSE IF ~text.readable THEN ValidationResult(FALSE, None, {})
    ELSE IF format_type = "auto"
    THEN LET detected_format == detect_csv_format(text)
         IN  IF detected_format = None THEN ValidationResult(FALSE, None, {})
             ELSE LET missing == missing_columns(
                                     FormatSpec(detected_format).required_columns, text)
                  IN  ValidationResult(missing = {}, detected_format, missing)
    ELSE IF lower(format_type) \in FormatNames
    THEN LET format_spec == FormatSpec(lower(format_type))
         IN  IF format_spec.headerless
             THEN LET expected_columns ==
                          Cardinality({k \in DOMAIN headerless_column_mapping :
                                          headerless_column_mapping[k] # <<>>})
                      actual_columns == Len(text.first)
                  IN  ValidationResult(actual_columns >= expected_columns,
                                       lower(format_type), {})
             ELSE LET missing == missing_columns(format_spec.required_columns, text)
                  IN  ValidationResult(missing = {}, lower(format_type), missing)
    ELSE ValidationResult(FALSE, None, {})

\* A call of validate_csv_format on the uploaded text.
ValidateCsvFormat(format_type) ==
    /\ "csv_content" \in DOMAIN call
    /\ call' = [op |-> "validate_csv_format", csv_content |-> call.csv_content,
                format_type |-> format_type,
                ret |-> validate_csv_format(call.csv_content, format_type)]
    /\ UNCHANGED <<store, nextId, batch, hierarchy, walk>>

NextValidate ==
    \E format_type \in FormatNames \cup {"auto", "CHASE", "unknown"} :
        ValidateCsvFormat(format_type)

SpecValidate == InitParse /\ [][NextValidate]_vars

\* C24: for a header-less format the result is valid exactly when the text has
\* at least as many columns as the layout uses (3: date, amount, description);
\* a well-formed 3-column header-less file is valid.
C24_HeaderlessValidByColumnCount ==
    (/\ call.op = "validate_csv_format"
     /\ call.format_type = "wells_fargo_headerless"
     /\ ~IsBlankText(call.csv_content) /\ call.csv_content.readable) =>
        (call.ret.valid <=> Len(call.csv_content.first) >= 3)

\* C27: when validate_csv_format(text, "auto") is valid with detected_format F,
\* validate_csv_format(text, F) is valid.
C27_AutoAgreesWithExplicit ==
    (call.op = "validate_csv_format" /\ call.format_type = "auto" /\ call.ret.valid) =>
        validate_csv_format(call.csv_content, call.ret.detected_format).valid

(***************************************************************************)
(* The upload page on whole files: the parser's result list is analysed    *)
(* against a table that already holds rows.                                *)
(***************************************************************************)
MaxBatch == 3

MaxTable == 4

\* parse_csv_generic has returned the Transactions of the uploaded file.
ParseFile(transactions) ==
    /\ batch' = transactions
    /\ call' = [op |-> "parse"]
    /\ UNCHANGED <<store, nextId, hierarchy, walk>>

\* The rows of the files: a purchase and the same purchase at another merchant.
FileRows == {BaseRow, [BaseRow EXCEPT !.description = <<"b">>]}

NextUpload ==
    \/ \E transactions \in SeqsUpTo(FileRows, MaxBatch) :
          Len(store) + Len(transactions) <= MaxTable /\ ParseFile(transactions)
    \/ \E w \in WidgetValues(batch) :
          \E failAt \in 0..1 :
             _show_upload_page(w.duplicate_handling, w.decision, w.clicked, failAt)

SpecUpload == Init /\ [][NextUpload]_vars

\* Number of positions of sequence s that hold x.
Occurrences(s, x) == Cardinality({i \in DOMAIN s : s[i] = x})

\* C28: _analyze_duplicates classifies each candidate against the rows stored
\* before the batch only, whatever the other rows of the batch are; two equal
\* rows of one batch that match no stored row are both classified new, and
\* under the skip-duplicates policy both are inserted.
C28_ClassifiedAgainstStoredOnly ==
    [][call'.op = "_show_upload_page" =>
        LET ts == call'.transactions
            a  == call'.analysis
            NewAlone(t) == _analyze_duplicates(store, <<t>>).new_count = 1
        IN  /\ \A i \in DOMAIN ts :
                  /\ NewAlone(ts[i]) <=> ~Matched(store, ts[i])
                  /\ Occurrences(a.new_transactions, ts[i]) =
                        IF NewAlone(ts[i]) THEN Occurrences(ts, ts[i]) ELSE 0
            /\ \A i, j \in DOMAIN ts :
                  (/\ i < j /\ ts[i] = ts[j] /\ ~Matched(store, ts[i])
                   /\ call'.duplicate_handling = SkipAll
                   /\ call'.clicked /\ call'.ret # <<>>)
                     => Cardinality({k \in DOMAIN store' \ DOMAIN store :
                                        Stores(store'[k], ts[i])})
                           = Occurrences(ts, ts[i])]_vars

\* A file with a duplicate of a stored row and the same new row twice was
\* imported under the skip policy: both new rows are in the table.
C28_Witness ==
    /\ call.op = "_show_upload_page"
    /\ call.duplicate_handling = SkipAll
    /\ call.analysis.duplicate_count = 1
    /\ call.analysis.new_count = 2
    /\ call.analysis.new_transactions[1] = call.analysis.new_transactions[2]
    /\ Len(call.ret) = 2
    /\ Occurrences([i \in DOMAIN store |-> store[i].description],
                   call.analysis.new_transactions[1].description) = 2

\* C29: under the manual-review policy only rows classified duplicate reach the
\* review; no row classified new is handed to the import or inserted, whatever
\* the decisions on the reviewed rows are.
C29_ReviewLeavesNewRowsOut ==
    [][(call'.op = "_show_upload_page" /\ call'.duplicate_handling = Review) =>
        LET new == Range(call'.analysis.new_transactions)
        IN  /\ Range(call'.passed.transactions) \cap new = {}
            /\ Range(call'.passed.transactions) \subseteq
                  {call'.analysis.duplicates[i].new_transaction :
                      i \in DOMAIN call'.analysis.duplicates}
            /\ \A k \in DOMAIN store' \ DOMAIN store :
                  \A t \in new : ~Stores(store'[k], t)]_vars

\* A reviewed row was accepted and inserted while the file also had a new row.
C29_Witness ==
    /\ call.op = "_show_upload_page"
    /\ call.duplicate_handling = Review
    /\ call.analysis.new_count >= 1
    /\ call.passed.called
    /\ call.ret # <<>>

(***************************************************************************)
(* The JSON import (app/db.py, app/export_import.py).                      *)
(*                                                                         *)
(* A row of the import is the dictionary to_dict() exports: the columns of *)
(* a stored row, the dates as ISO texts and the amount as a float.         *)
(***************************************************************************)
\* The keys from_dict reads with data[...]; a missing one raises KeyError.
RequiredKeys == {"transaction_date", "post_date", "description", "category", "amount"}

\* data.get('id'): None for a dictionary without the key.
WithId(data) ==
    IF "id" \in DOMAIN data THEN data
    ELSE [f \in DOMAIN data \cup {"id"} |-> IF f = "id" THEN NoId ELSE data[f]]

\* Transaction.from_dict(transaction_dict) inside the loop's try block.
FromImportDict(data) ==
    IF ~(RequiredKeys \subseteq DOMAIN data) THEN [raised |-> KeyError, self |-> data]
    ELSE FromRow(WithId(data))

\* Mutant of ExistsAtRow: every row is asked of the table as it was before the
\* import.
ExistsBeforeImport(before, current, transaction) == transaction_exists(before, transaction)

\* self.transaction_exists(transaction) at a row of the loop: asked of the
\* table as it is then, with the rows this import has inserted so far.
ExistsAtRow(before, current, transaction) == transaction_exists(current, transaction)

\* The loop of import_transactions_from_dict after its first k rows: the
\* table, the next id and what happened to each row. failAt = k: the INSERT of
\* row k, if it comes to it, raises sqlite3.Error.
RECURSIVE ImportLoop(_, _, _, _, _)
ImportLoop(s, n, transactions_data, failAt, k) ==
    IF k = 0 THEN [store |-> s, nextId |-> n, outcomes |-> <<>>]
    ELSE LET prev  == ImportLoop(s, n, transactions_data, failAt, k - 1)
             built == FromImportDict(transactions_data[k])
             Count(outcome) == [prev EXCEPT !.outcomes = Append(@, outcome)]
         IN  IF built.raised # None THEN Count("error")
             ELSE IF ExistsAtRow(s, prev.store, built.self) THEN Count("duplicate")
             ELSE IF failAt = k THEN Count("error")
             ELSE [store    |-> Append(prev.store, InsertValues(built.self, prev.nextId)),
                   nextId   |-> prev.nextId + 1,
                   outcomes |-> Append(prev.outcomes, "imported")]

\* import_transactions_from_dict on the loaded JSON document: ValueError
\* without the 'transactions' key, otherwise the loop and the dictionary of its
\* counters.
import_transactions_from_dict(failAt) ==
    /\ "import_data" \in DOMAIN call
    /\ LET import_data == call.import_data
       IN  IF "transactions" \notin DOMAIN import_data
           THEN /\ failAt = 0
                /\ call' = [op |-> "import_transactions_from_dict",
                            import_data |-> import_data,
                            outcomes |-> <<>>, ret |-> Raised(ValueError)]
                /\ UNCHANGED <<store, nextId>>
           ELSE LET transactions_data == import_data.transactions
                    done == ImportLoop(store, nextId, transactions_data, failAt,
                                       Len(transactions_data))
                IN  /\ failAt <= Len(transactions_data)
                    /\ Len(store) + Len(transactions_data) <= MaxTable
                    /\ store' = done.store
                    /\ nextId' = done.nextId
                    /\ call' = [op |-> "import_transactions_from_dict",
                                import_data |-> import_data,
                                outcomes |-> done.outcomes,
                                ret |-> Returned(
                                   [imported        |-> Occurrences(done.outcomes, "imported"),
                                    duplicates      |-> Occurrences(done.outcomes, "duplicate"),
                                    errors          |-> Occurrences(done.outcomes, "error"),
                                    total_processed |-> Len(transactions_data)])]
    /\ UNCHANGED <<batch, hierarchy, walk>>

\* The rows of the imported files: an exported purchase, the same with its
\* description in the other case, another purchase, a row with a blank
\* description, and a dictionary without the keys of a transaction.
ImportRows ==
    {InsertValues(t, 1) : t \in Transactions({1}, {1}, {<<"a">>, <<"A">>, <<"b">>, <<" ">>},
                                             {"A"}, {-2})}
    \cup {[bad |-> "1"]}

ImportFiles ==
    {[transactions |-> rows] : rows \in SeqsUpTo(ImportRows, MaxBatch)}
    \cup {[metadata |-> "1.0"]}

\* json.loads has read a document.
InitImport ==
    /\ store = <<>>
    /\ nextId = 1
    /\ batch = <<>>
    /\ hierarchy = <<>>
    /\ walk = [pc |-> "idle"]
    /\ \E import_data \in ImportFiles : call = [op |-> "json.loads", import_data |-> import_data]

NextImport == \E failAt \in 0..MaxBatch : import_transactions_from_dict(failAt)

SpecImport == InitImport /\ [][NextImport]_vars

====
